---- MODULE Spec2Model ----
(***************************************************************************)
(* Order lifecycle and escrow coordination of the P2P trading bot          *)
(* (bot/modules/community/messages.js: the command handlers, the button    *)
(* action and the two scheduled jobs registered in initialize(), and       *)
(* earningsMessage).  A handler is an async function: it is modelled as a  *)
(* process in a slot of `run`, one action per access to the database or to *)
(* the escrow service, so that handlers interleave at their awaits.  The   *)
(* handler keeps the documents it read in its slot.  What `doc.save()`     *)
(* writes is decided by the persistence layer, which is not part of the    *)
(* source: the fields the handler changed on its document, the fields it   *)
(* assigned, or the whole document; `store` holds which of the three the   *)
(* deployment does, from the start and for good.  What an escrow call      *)
(* comes to (done, failure reported as its result, rejection) and a        *)
(* Telegram call that rejects are inputs of the step that makes the call;  *)
(* a rejection ends the handler as its try/catch does.                     *)
(***************************************************************************)
EXTENDS Integers, FiniteSets, Sequences, TLC

VARIABLES
    orders,        \* Order collection: id -> persisted Order document
    users,         \* User collection: id -> persisted User document
    holdInvoices,  \* hashes of the hold invoices createHoldInvoice has made
    subscribed,    \* hashes subscribeInvoice was called for
    settleCalls,   \* hash -> settleHoldInvoice calls carried out with its secret
    cancelCalls,   \* hash -> cancelHoldInvoice calls carried out with it
    noArgCall,     \* an escrow call was made with an undefined hash / secret
    run,           \* slot -> the handler running in it: command, position, locals
    left,          \* commands and job runs that may still start
    last,          \* what the handler that ended last did
    payments,      \* PendingPayment collection of the community
    earnings,      \* community.earnings
    reply,         \* what earningsMessage last replied
    store          \* what `doc.save()` of the persistence layer writes

vars == <<orders, users, holdInvoices, subscribed, settleCalls, cancelCalls,
          noArgCall, run, left, last, payments, earnings, reply, store>>

communityVars == <<payments, earnings, reply>>

\* ------------------------------------------------------------------ bounds and configuration
MaxInvoices == 3
MaxCalls == 2
MaxCommands == 2
MAX_DISPUTES == 2

Users == {"alice", "bob", "admin"}
Admins == {"admin"}
Usernames == Users \cup {"ghost"}
\* The ids Order documents get: the order the bot starts with and one for
\* every command that may create another.
OrderIds == 1..(MaxCommands + 1)
DisputeOrderIds == {1, 2, 3}
\* The most commands a behaviour starts.
MaxInFlight ==
    IF MaxCommands > Cardinality(DisputeOrderIds) THEN MaxCommands
    ELSE Cardinality(DisputeOrderIds)
\* The handlers in flight: every command that starts gets a slot of its own.
Slots == 1..MaxInFlight
\* process.env.PAYMENT_ATTEMPTS
PAYMENT_ATTEMPTS == 2
MaxPayments == 2
MaxEarnings == 2
Communities == {"c1", "c2"}
InvoiceIds == 1..MaxInvoices
NoUser == "none"
\* The lightning invoices users hand in; two of them pay the same user.
Invoices == {"ln:alice:0", "ln:bob:0", "ln:bob:7"}
NoInvoice == "none"
\* What `doc.save()` writes: the paths whose value changed, the paths that
\* were assigned, or the whole document.
SaveModes == {"modified", "assigned", "whole"}
None == 0

Terminal == {"COMPLETED", "COMPLETED_BY_ADMIN", "CANCELED", "CANCELED_BY_ADMIN"}

\* ------------------------------------------------------------------ records
\* Order created by the sell command: status PENDING, nothing else set.
NewOrder(seller) ==
    [type |-> "sell", status |-> "PENDING", creator_id |-> seller,
     seller_id |-> seller,
     buyer_id |-> NoUser, buyer_invoice |-> NoInvoice, hash |-> None,
     secret |-> None, taken_at |-> FALSE, canceled_by |-> NoUser,
     buyer_cooperativecancel |-> FALSE, seller_cooperativecancel |-> FALSE,
     buyer_dispute |-> FALSE, seller_dispute |-> FALSE]

\* Order created by the buy command: the creator is the buyer, no seller yet.
NewBuyOrder(buyer) ==
    [NewOrder(NoUser) EXCEPT !.type = "buy", !.creator_id = buyer,
                             !.buyer_id = buyer]

NewUser == [disputes |-> 0, banned |-> FALSE]

\* The invoice a user handed in with takesell.
invoiceOf(u) == IF u = "alice" THEN "ln:alice:0" ELSE "ln:bob:0"

\* An order that was taken by `buyer`, whose hold invoice `h` the seller has paid.
ActiveOrder(seller, buyer, h) ==
    [NewOrder(seller) EXCEPT !.status = "ACTIVE", !.buyer_id = buyer,
                             !.buyer_invoice = invoiceOf(buyer), !.hash = h,
                             !.secret = -h, !.taken_at = TRUE]

\* An order that was taken by `buyer`, whose hold invoice `h` is not paid yet.
WaitingOrder(seller, buyer, h) ==
    [ActiveOrder(seller, buyer, h) EXCEPT !.status = "WAITING_PAYMENT"]

\* An order on which the buyer has declared the fiat sent.
FiatSentOrder(seller, buyer, h) ==
    [ActiveOrder(seller, buyer, h) EXCEPT !.status = "FIAT_SENT"]

\* No reply sent by the earnings flow yet.
NoReply == [community |-> "none", text |-> "none", button |-> FALSE]

\* A slot with no handler in it: the locals hold nothing.
Idle == [cmd |-> "none", pc |-> "idle", user |-> NoUser, oid |-> None,
         from |-> "none", order |-> NewOrder(NoUser), assigned |-> {},
         escrow |-> "none", saved |-> {}, buyer |-> NewUser, seller |-> NewUser,
         community |-> "none", found |-> FALSE, earnings |-> 0,
         lnInvoice |-> NoInvoice]

\* A handler that has just read its order: `const order = await ...`.
Started(cmd, u, o, pc) ==
    [Idle EXCEPT !.cmd = cmd, !.pc = pc, !.user = u, !.oid = o,
                 !.from = orders[o].status, !.order = orders[o]]

\* A new handler, or a run of the order-expiry job, takes the first slot that
\* is free.
Free(s) ==
    /\ left > 0
    /\ left' = left - 1
    /\ UNCHANGED store
    /\ run[s].pc = "idle"
    /\ \A t \in Slots : t < s => run[t].pc # "idle"

\* The handler in slot s is the command `cmd` waiting at `pc`.
At(s, cmd, pc) ==
    run[s].cmd = cmd /\ run[s].pc = pc /\ UNCHANGED <<left, store>>

\* The record of a handler run: the command, who sent it, the order it was given,
\* the status it read on that order, what its escrow call came to, and how it ended.
Did(cmd, u, o, from, escrow, outcome) ==
    [cmd |-> cmd, user |-> u, order |-> o, from |-> from, escrow |-> escrow,
     outcome |-> outcome]

\* The handler in slot s returns.
Ends(s, escrow, outcome) ==
    /\ run' = [run EXCEPT ![s] = Idle]
    /\ last' = Did(run[s].cmd, run[s].user, run[s].oid, run[s].from,
                   escrow, outcome)

\* `doc.field = value`: of the `fields` a handler assigns, those whose value
\* `mem` differs from the one `doc` held.
modifiedPaths(doc, mem, fields) == {f \in fields : mem[f] # doc[f]}

\* The paths of a document that its save() writes once the handler has
\* assigned `fields` on it, turning `doc` into `mem`.
pathsToSave(doc, mem, fields) ==
    IF store = "whole" THEN DOMAIN doc
    ELSE IF store = "assigned" THEN fields
    ELSE modifiedPaths(doc, mem, fields)

\* `doc.save()`: the paths to save of the handler's document replace the
\* persisted ones; every other field keeps its persisted value.
save(persisted, mem, paths) ==
    [f \in DOMAIN persisted |-> IF f \in paths THEN mem[f] ELSE persisted[f]]

\* ------------------------------------------------------------------ escrow client (../ln)
\* createHoldInvoice: a fresh invoice; its secret is a value of its own.
createHoldInvoice ==
    LET h == Cardinality(holdInvoices) + 1 IN [hash |-> h, secret |-> -h]

InvoiceOf(secret) == -secret

\* settleHoldInvoice({secret}) that does not error.
settleHoldInvoice(secret) ==
    IF InvoiceOf(secret) \notin holdInvoices THEN settleCalls
    ELSE [settleCalls EXCEPT ![InvoiceOf(secret)] = @ + 1]

\* cancelHoldInvoice({hash}) that does not error.
cancelHoldInvoice(hash) ==
    IF hash \notin holdInvoices THEN cancelCalls
    ELSE [cancelCalls EXCEPT ![hash] = @ + 1]

\* The model stops counting the calls for one invoice at MaxCalls.
CanSettle(secret) ==
    InvoiceOf(secret) \in holdInvoices => settleCalls[InvoiceOf(secret)] < MaxCalls

CanCancel(hash) == hash \in holdInvoices => cancelCalls[hash] < MaxCalls

\* ------------------------------------------------------------------ validations (./validations, ./ordersActions)
validateUser(u) == u \in DOMAIN users

validateAdmin(u) == u \in Admins

getOrder(u, o) ==
    /\ o \in DOMAIN orders
    /\ u \in {orders[o].seller_id, orders[o].buyer_id} \cup Admins

validateTakeSellOrder(u, o) ==
    /\ o \in DOMAIN orders
    /\ orders[o].type = "sell"
    /\ orders[o].status = "PENDING"
    /\ orders[o].buyer_id = NoUser
    /\ u # orders[o].seller_id
    /\ u \notin Admins

validateFiatSentOrder(u, o) ==
    /\ o \in DOMAIN orders
    /\ orders[o].status = "ACTIVE"
    /\ u = orders[o].buyer_id

validateReleaseOrder(u, o) ==
    /\ o \in DOMAIN orders
    /\ orders[o].status \in {"ACTIVE", "FIAT_SENT"}
    /\ u = orders[o].seller_id
    /\ orders[o].secret # None

validateDisputeOrder(u, o) ==
    /\ o \in DOMAIN orders
    /\ orders[o].status \in {"ACTIVE", "FIAT_SENT"}
    /\ u \in {orders[o].seller_id, orders[o].buyer_id}

\* ------------------------------------------------------------------ escrow calls of a handler
\* The guard left out: cancelHoldInvoice is called whatever the order holds.
hasHoldInvoice_Always(ord) == TRUE

\* `!!order.hash`: the guard in front of every cancelHoldInvoice call.
hasHoldInvoice(ord) == ord.hash # None

\* `!!order.secret`: the guard in front of settleorder's settleHoldInvoice call.
hasSecret(ord) == ord.secret # None

\* What an awaited settleHoldInvoice or cancelHoldInvoice comes to: the call
\* is carried out, the client reports the failure as its result, or the
\* awaited promise rejects.
EscrowOutcomes == {"ok", "error", "threw"}

\* What the handler's escrow call came to; "none" when it made no call.
EscrowResult(called, outcome) == IF ~called THEN "none" ELSE outcome

\* The escrow call was made and failed, reported either way.
escrowFailed(res) == res \in {"error", "threw"}

\* A rejected `await` leaves the handler's try block; a result, "error"
\* included, is dropped by the handler, which goes on.
escrowThrows(res) == res = "threw"

\* `await cancelHoldInvoice({ hash })` made by a handler, when `called`.
CancelEscrow(called, hash, outcome) ==
    /\ (called /\ outcome = "ok") => CanCancel(hash)
    /\ cancelCalls' = IF called /\ outcome = "ok" THEN cancelHoldInvoice(hash)
                      ELSE cancelCalls
    /\ noArgCall' = (noArgCall \/ (called /\ hash = None))
    /\ UNCHANGED settleCalls

\* `await settleHoldInvoice({ secret })` made by a handler, when `called`.
SettleEscrow(called, secret, outcome) ==
    /\ (called /\ outcome = "ok") => CanSettle(secret)
    /\ settleCalls' = IF called /\ outcome = "ok" THEN settleHoldInvoice(secret)
                      ELSE settleCalls
    /\ noArgCall' = (noArgCall \/ (called /\ secret = None))
    /\ UNCHANGED cancelCalls

NoEscrow == UNCHANGED <<settleCalls, cancelCalls, noArgCall>>

escrowVars == <<holdInvoices, subscribed, settleCalls, cancelCalls, noArgCall>>

\* The step of a handler that awaited its escrow call: a rejection ends the
\* handler in its catch, otherwise it goes on to `pc` with the document `mem`,
\* on which it has assigned `fields`.
AfterEscrow(s, res, mem, fields, pc) ==
    IF escrowThrows(res)
    THEN Ends(s, res, "threw")
    ELSE /\ run' = [run EXCEPT ![s] = [@ EXCEPT !.pc = pc, !.escrow = res,
                        !.order = mem,
                        !.assigned = @ \cup pathsToSave(run[s].order, mem, fields)]]
         /\ UNCHANGED last

\* `await order.save()` as the handler's last access: the paths to save of
\* the document in the slot are written and the handler ends.
SaveAndEnd(s) ==
    /\ orders' = [orders EXCEPT ![run[s].oid] =
                     save(@, run[s].order, run[s].assigned)]
    /\ Ends(s, run[s].escrow, "saved")

\* A handler that ends in the step that read the order: nothing is kept.
Rejects(cmd, u, o) ==
    /\ last' = Did(cmd, u, o, orders[o].status, "none", "rejected")
    /\ UNCHANGED run

\* ------------------------------------------------------------------ takesell
\* The hold invoice's secret left off the saved document.
takenOrder_NoSecret(ord, u, lnInvoice, inv) ==
    [ord EXCEPT !.status = "WAITING_PAYMENT", !.buyer_id = u,
                !.buyer_invoice = lnInvoice, !.hash = inv.hash,
                !.taken_at = TRUE]

\* The document takesell saves: taker, taker's invoice, hold invoice, taken_at.
takenOrder(ord, u, lnInvoice, inv) ==
    [ord EXCEPT !.status = "WAITING_PAYMENT", !.buyer_id = u,
                !.buyer_invoice = lnInvoice, !.hash = inv.hash,
                !.secret = inv.secret, !.taken_at = TRUE]

\* The fields takesell assigns on the order before it saves it.
takenFields ==
    {"status", "buyer_id", "buyer_invoice", "hash", "secret", "taken_at"}

\* order.save() moved in front of createHoldInvoice: the taker is persisted
\* although no hold invoice exists.
takeSellFailed_SavedEarly(ord, mem, u) ==
    [mem EXCEPT !.status = "WAITING_PAYMENT", !.buyer_id = u,
                !.buyer_invoice = invoiceOf(u)]

\* The persisted order `ord` when createHoldInvoice errors: order.save() comes
\* after the call, so the assignments to the handler's document `mem` are lost.
takeSellFailed(ord, mem, u) == ord

\* `Order.findOne({ _id: orderId })`, `validateTakeSellOrder(...)`: the handler
\* keeps the document it read.
TakeRead(s, u, o, lnInvoice) ==
    /\ Free(s)
    /\ validateUser(u)
    /\ validateTakeSellOrder(u, o)
    /\ run' = [run EXCEPT ![s] = [Started("takesell", u, o, "validated")
                                     EXCEPT !.lnInvoice = lnInvoice]]
    /\ UNCHANGED <<orders, users, last, escrowVars, communityVars>>

\* `await createHoldInvoice({ amount, description })`; an error ends the handler
\* in the inner catch.
TakeCreateInvoice(s, escrowOk) ==
    /\ At(s, "takesell", "validated")
    /\ IF escrowOk
       THEN LET inv == createHoldInvoice IN
            /\ Cardinality(holdInvoices) < MaxInvoices
            /\ holdInvoices' = holdInvoices \cup {inv.hash}
            /\ run' = [run EXCEPT ![s] = [@ EXCEPT !.pc = "invoiced",
                   !.escrow = "ok",
                   !.assigned = pathsToSave(run[s].order,
                       takenOrder(run[s].order, run[s].user,
                                  run[s].lnInvoice, inv), takenFields),
                   !.order = takenOrder(run[s].order, run[s].user,
                                        run[s].lnInvoice, inv)]]
            /\ UNCHANGED <<orders, last>>
       ELSE /\ orders' = [orders EXCEPT ![run[s].oid] =
                   takeSellFailed(orders[run[s].oid], run[s].order, run[s].user)]
            /\ Ends(s, "error", "threw")
            /\ UNCHANGED holdInvoices
    /\ UNCHANGED <<users, subscribed, settleCalls, cancelCalls, noArgCall,
                   communityVars>>

\* `await order.save()` of the document read at the start, with the taker and
\* the hold invoice assigned.
TakeSave(s) ==
    /\ At(s, "takesell", "invoiced")
    /\ orders' = [orders EXCEPT ![run[s].oid] =
                     save(@, run[s].order, run[s].assigned)]
    /\ run' = [run EXCEPT ![s] = [@ EXCEPT !.pc = "saved", !.saved = {"order"}]]
    /\ UNCHANGED <<users, last, escrowVars, communityVars>>

\* `await subscribeInvoice(bot, hash)`, then the messages: the handler ends.
TakeSubscribe(s) ==
    /\ At(s, "takesell", "saved")
    /\ subscribed' = subscribed \cup {run[s].order.hash}
    /\ Ends(s, "ok", "saved")
    /\ UNCHANGED <<orders, users, holdInvoices, settleCalls, cancelCalls,
                   noArgCall, communityVars>>

\* The subscription's callback: the hold invoice of a WAITING_PAYMENT order was paid.
InvoicePaid(h) ==
    /\ h \in subscribed
    /\ \E o \in DOMAIN orders :
         /\ orders[o].hash = h
         /\ orders[o].status = "WAITING_PAYMENT"
         /\ orders' = [orders EXCEPT ![o].status = "ACTIVE"]
         /\ last' = Did("invoicepaid", NoUser, o, orders[o].status, "none", "saved")
    /\ UNCHANGED <<users, run, left, store, escrowVars, communityVars>>

\* ------------------------------------------------------------------ fiatsent
\* `validateFiatSentOrder(bot, user, orderId)` returns the order.
FiatSentRead(s, u, o) ==
    /\ Free(s)
    /\ validateUser(u)
    /\ validateFiatSentOrder(u, o)
    /\ run' = [run EXCEPT ![s] =
           [Started("fiatsent", u, o, "validated")
               EXCEPT !.order.status = "FIAT_SENT",
                      !.assigned = pathsToSave(orders[o],
                          [orders[o] EXCEPT !.status = "FIAT_SENT"], {"status"})]]
    /\ UNCHANGED <<orders, users, last, escrowVars, communityVars>>

\* `await order.save()` after the seller was looked up.
FiatSentSave(s) ==
    /\ At(s, "fiatsent", "validated")
    /\ SaveAndEnd(s)
    /\ UNCHANGED <<users, escrowVars, communityVars>>

\* ------------------------------------------------------------------ release
\* The secret the release handler passes to settleHoldInvoice.
releaseSecret(ord) == ord.secret

\* `validateReleaseOrder(bot, user, orderId)` returns the order.
ReleaseRead(s, u, o) ==
    /\ Free(s)
    /\ validateUser(u)
    /\ validateReleaseOrder(u, o)
    /\ run' = [run EXCEPT ![s] = Started("release", u, o, "validated")]
    /\ UNCHANGED <<orders, users, last, escrowVars, communityVars>>

\* `await settleHoldInvoice({ secret: order.secret })`: the handler's last
\* statement; it assigns and saves nothing.
ReleaseSettle(s, outcome) ==
    /\ At(s, "release", "validated")
    /\ LET res == EscrowResult(TRUE, outcome) IN
       /\ SettleEscrow(TRUE, releaseSecret(run[s].order), outcome)
       /\ Ends(s, res, IF escrowThrows(res) THEN "threw"
                       ELSE IF res = "ok" THEN "settled" ELSE "returned")
    /\ UNCHANGED <<orders, users, holdInvoices, subscribed, communityVars>>

\* A release that the escrow carried out completes the order.
orderCompleted(ord) == [ord EXCEPT !.status = "COMPLETED"]

\* The subscription's callback: the hold invoice of an order was settled.
InvoiceSettled(h) ==
    /\ h \in subscribed
    /\ settleCalls[h] >= 1
    /\ \E o \in DOMAIN orders :
         /\ orders[o].hash = h
         /\ orders[o].status \in {"ACTIVE", "FIAT_SENT"}
         /\ orders' = [orders EXCEPT ![o] = orderCompleted(orders[o])]
         /\ last' = Did("invoicesettled", NoUser, o, orders[o].status, "none", "saved")
    /\ UNCHANGED <<users, run, left, store, escrowVars, communityVars>>

\* ------------------------------------------------------------------ dispute
\* `if (user._id == order.buyer_id) initiator = 'buyer'`, else 'seller'.
initiatorOf(u, ord) == IF u = ord.buyer_id THEN "buyer" ELSE "seller"

counterPartyOf(initiator) == IF initiator = "buyer" THEN "seller" ELSE "buyer"

\* `xDisputes >= process.env.MAX_DISPUTES`
banThreshold(disputes) == disputes >= MAX_DISPUTES

\* The user document after lines 455-464: one more dispute, banned at the maximum.
afterDispute(doc) ==
    [disputes |-> doc.disputes + 1,
     banned |-> IF banThreshold(doc.disputes + 1) THEN TRUE ELSE doc.banned]

\* The fields lines 455-464 assign on that document: `disputes` always,
\* `banned` only inside the `if` of the threshold.
disputeUserFields(doc) ==
    {"disputes"} \cup (IF banThreshold(doc.disputes + 1) THEN {"banned"} ELSE {})

\* The fields of the user document that buyer.save() / seller.save() writes.
disputeUserModified(doc) ==
    pathsToSave(doc, afterDispute(doc), disputeUserFields(doc))

\* The fields lines 450-451 assign on the order.
disputeOrderFields(initiator) ==
    {IF initiator = "buyer" THEN "buyer_dispute" ELSE "seller_dispute", "status"}

\* The order document the dispute handler saves.
disputeOrder(ord, initiator) ==
    IF initiator = "buyer"
    THEN [ord EXCEPT !.buyer_dispute = TRUE, !.status = "DISPUTE"]
    ELSE [ord EXCEPT !.seller_dispute = TRUE, !.status = "DISPUTE"]

\* `validateDisputeOrder` returns the order document.
DisputeValidate(s, u, o) ==
    /\ Free(s)
    /\ validateUser(u)
    /\ validateDisputeOrder(u, o)
    /\ run' = [run EXCEPT ![s] = Started("dispute", u, o, "validated")]
    /\ UNCHANGED <<orders, users, last, escrowVars, communityVars>>

\* `let buyer = await User.findOne({ _id: order.buyer_id })`
DisputeReadBuyer(s) ==
    /\ At(s, "dispute", "validated")
    /\ run' = [run EXCEPT ![s] = [@ EXCEPT !.pc = "gotBuyer",
                   !.buyer = users[run[s].order.buyer_id]]]
    /\ UNCHANGED <<orders, users, last, escrowVars, communityVars>>

\* `let seller = await User.findOne({ _id: order.seller_id })`
DisputeReadSeller(s) ==
    /\ At(s, "dispute", "gotBuyer")
    /\ run' = [run EXCEPT ![s] = [@ EXCEPT !.pc = "gotSeller",
                   !.seller = users[run[s].order.seller_id]]]
    /\ UNCHANGED <<orders, users, last, escrowVars, communityVars>>

\* `await order.save()` of the order with the dispute flag and status DISPUTE
DisputeSaveOrder(s) ==
    /\ At(s, "dispute", "gotSeller")
    /\ LET initiator == initiatorOf(run[s].user, run[s].order)
           mem == disputeOrder(run[s].order, initiator)
           paths == pathsToSave(run[s].order, mem,
                                disputeOrderFields(initiator))
       IN /\ orders' = [orders EXCEPT ![run[s].oid] = save(@, mem, paths)]
          /\ run' = [run EXCEPT ![s] = [@ EXCEPT !.pc = "orderSaved",
                         !.order = mem,
                         !.assigned = paths,
                         !.saved = @ \cup {"order"}]]
    /\ UNCHANGED <<users, last, escrowVars, communityVars>>

\* `await buyer.save()` of the buyer document read at the start
DisputeSaveBuyer(s) ==
    /\ At(s, "dispute", "orderSaved")
    /\ users' = [users EXCEPT ![run[s].order.buyer_id] =
                    save(@, afterDispute(run[s].buyer),
                         disputeUserModified(run[s].buyer))]
    /\ run' = [run EXCEPT ![s] = [@ EXCEPT !.pc = "buyerSaved",
                   !.saved = @ \cup {"buyer"}]]
    /\ UNCHANGED <<orders, last, escrowVars, communityVars>>

\* `await seller.save()` of the seller document read at the start
DisputeSaveSeller(s) ==
    /\ At(s, "dispute", "buyerSaved")
    /\ users' = [users EXCEPT ![run[s].order.seller_id] =
                    save(@, afterDispute(run[s].seller),
                         disputeUserModified(run[s].seller))]
    /\ run' = [run EXCEPT ![s] = [@ EXCEPT !.pc = "sellerSaved",
                   !.saved = @ \cup {"seller"}]]
    /\ UNCHANGED <<orders, last, escrowVars, communityVars>>

\* The notification moved up to right after order.save().
notifyAfter_OrderSave == "orderSaved"

\* The statement beginDisputeMessage follows: `await seller.save()`.
notifyAfter == "sellerSaved"

\* What the handler that ended last had saved.
DidDispute(s) ==
    [cmd |-> "dispute", user |-> run[s].user, order |-> run[s].oid,
     from |-> run[s].from, escrow |-> "none", outcome |-> "saved",
     saved |-> run[s].saved]

\* `await messages.beginDisputeMessage(...)`: the handler ends.
DisputeNotify(s) ==
    /\ At(s, "dispute", notifyAfter)
    /\ run' = [run EXCEPT ![s] = Idle]
    /\ last' = DidDispute(s)
    /\ UNCHANGED <<orders, users, escrowVars, communityVars>>

\* ------------------------------------------------------------------ cancel
\* The guard letting ACTIVE orders through as well.
cancelRejected_AllowsActive(ord) ==
    ord.status \notin {"PENDING", "WAITING_PAYMENT", "ACTIVE"}

\* `order.status !== 'PENDING' && order.status !== 'WAITING_PAYMENT'`
cancelRejected(ord) == ord.status \notin {"PENDING", "WAITING_PAYMENT"}

\* `ordersActions.getOrder(bot, user, orderId)` and the status guard.
CancelRead(s, u, o) ==
    /\ Free(s)
    /\ validateUser(u)
    /\ getOrder(u, o)
    /\ IF cancelRejected(orders[o])
       THEN Rejects("cancel", u, o)
       ELSE /\ run' = [run EXCEPT ![s] = Started("cancel", u, o, "validated")]
            /\ UNCHANGED last
    /\ UNCHANGED <<orders, users, escrowVars, communityVars>>

\* `if (!!order.hash) await cancelHoldInvoice({ hash: order.hash })`, then the
\* assignments of status and canceled_by to the handler's document.
CancelCall(s, outcome) ==
    /\ At(s, "cancel", "validated")
    /\ LET ord == run[s].order
           called == hasHoldInvoice(ord)
       IN /\ CancelEscrow(called, ord.hash, outcome)
          /\ AfterEscrow(s, EscrowResult(called, outcome),
                         [ord EXCEPT !.status = "CANCELED",
                                     !.canceled_by = run[s].user],
                         {"status", "canceled_by"}, "called")
    /\ UNCHANGED <<orders, users, holdInvoices, subscribed, communityVars>>

\* `await order.save()`
CancelSave(s) ==
    /\ At(s, "cancel", "called")
    /\ SaveAndEnd(s)
    /\ UNCHANGED <<users, escrowVars, communityVars>>

\* ------------------------------------------------------------------ cancelorder
\* `Order.findOne({ _id: orderId })`: no status is looked at.
CancelOrderRead(s, a, o) ==
    /\ Free(s)
    /\ validateAdmin(a)
    /\ o \in DOMAIN orders
    /\ run' = [run EXCEPT ![s] = Started("cancelorder", a, o, "validated")]
    /\ UNCHANGED <<orders, users, last, escrowVars, communityVars>>

\* `if (!!order.hash) await cancelHoldInvoice({ hash: order.hash })`
CancelOrderCall(s, outcome) ==
    /\ At(s, "cancelorder", "validated")
    /\ LET ord == run[s].order
           called == hasHoldInvoice(ord)
       IN /\ CancelEscrow(called, ord.hash, outcome)
          /\ AfterEscrow(s, EscrowResult(called, outcome),
                         [ord EXCEPT !.status = "CANCELED_BY_ADMIN",
                                     !.canceled_by = run[s].user],
                         {"status", "canceled_by"}, "called")
    /\ UNCHANGED <<orders, users, holdInvoices, subscribed, communityVars>>

\* `await order.save()` after buyer and seller were looked up.
CancelOrderSave(s) ==
    /\ At(s, "cancelorder", "called")
    /\ SaveAndEnd(s)
    /\ UNCHANGED <<users, escrowVars, communityVars>>

\* ------------------------------------------------------------------ settleorder
\* `ordersActions.getOrder(bot, user, orderId)`: no status is looked at.
SettleOrderRead(s, a, o) ==
    /\ Free(s)
    /\ validateAdmin(a)
    /\ getOrder(a, o)
    /\ run' = [run EXCEPT ![s] = Started("settleorder", a, o, "validated")]
    /\ UNCHANGED <<orders, users, last, escrowVars, communityVars>>

\* `if (!!order.secret) await settleHoldInvoice({ secret: order.secret })`
SettleOrderCall(s, outcome) ==
    /\ At(s, "settleorder", "validated")
    /\ LET ord == run[s].order
           called == hasSecret(ord)
       IN /\ SettleEscrow(called, ord.secret, outcome)
          /\ AfterEscrow(s, EscrowResult(called, outcome),
                         [ord EXCEPT !.status = "COMPLETED_BY_ADMIN"],
                         {"status"}, "called")
    /\ UNCHANGED <<orders, users, holdInvoices, subscribed, communityVars>>

\* `await order.save()` after buyer and seller were looked up.
SettleOrderSave(s) ==
    /\ At(s, "settleorder", "called")
    /\ SaveAndEnd(s)
    /\ UNCHANGED <<users, escrowVars, communityVars>>

\* ------------------------------------------------------------------ cooperativecancel
\* order[`${role}_cooperativecancel`]
coopFlag(ord, role) ==
    IF role = "buyer" THEN ord.buyer_cooperativecancel
    ELSE ord.seller_cooperativecancel

\* order[`${initiator}_cooperativecancel`] = true
setCoopFlag(ord, role) ==
    IF role = "buyer" THEN [ord EXCEPT !.buyer_cooperativecancel = TRUE]
    ELSE [ord EXCEPT !.seller_cooperativecancel = TRUE]

\* `${role}_cooperativecancel`
coopField(role) ==
    IF role = "buyer" THEN "buyer_cooperativecancel" ELSE "seller_cooperativecancel"

\* The counterparty's flag not looked at: the first request already cancels.
counterPartyRequested_Always(ord, counterParty) == TRUE

\* `if (order[`${counterParty}_cooperativecancel`])`: this is the second confirmation.
counterPartyRequested(ord, counterParty) == coopFlag(ord, counterParty)

\* The check of the initiator's own flag left out.
alreadyRequested_Unchecked(ord, initiator) == FALSE

\* `if (order[`${initiator}_cooperativecancel`])`: already requested, rejected.
alreadyRequested(ord, initiator) == coopFlag(ord, initiator)

\* `ordersActions.getOrder(...)`, the status guard and the check of the
\* initiator's own flag, all on the document just read.
CoopRead(s, u, o) ==
    /\ Free(s)
    /\ validateUser(u)
    /\ getOrder(u, o)
    /\ IF \/ orders[o].status # "ACTIVE"
          \/ alreadyRequested(orders[o], initiatorOf(u, orders[o]))
       THEN Rejects("cooperativecancel", u, o)
       ELSE /\ run' = [run EXCEPT ![s] =
                   Started("cooperativecancel", u, o, "validated")]
            /\ UNCHANGED last
    /\ UNCHANGED <<orders, users, escrowVars, communityVars>>

\* From the flag assignment to the last message before order.save(): with the
\* counterparty's flag on the handler's document the hold invoice is cancelled
\* and the status assigned; a message or channel deletion that rejects ends
\* the handler in its catch.
CoopDecide(s, outcome, tgOk) ==
    /\ At(s, "cooperativecancel", "validated")
    /\ LET ord == run[s].order
           initiator == initiatorOf(run[s].user, ord)
           mine == setCoopFlag(ord, initiator)
           second == counterPartyRequested(mine, counterPartyOf(initiator))
           called == second /\ hasHoldInvoice(mine)
           res == EscrowResult(called, outcome)
       IN /\ CancelEscrow(called, mine.hash, outcome)
          /\ IF ~escrowThrows(res) /\ ~tgOk
             THEN Ends(s, res, "threw")
             ELSE AfterEscrow(s, res,
                      IF second THEN [mine EXCEPT !.status = "CANCELED"] ELSE mine,
                      {coopField(initiator)}
                         \cup (IF second THEN {"status"} ELSE {}),
                      "decided")
    /\ UNCHANGED <<orders, users, holdInvoices, subscribed, communityVars>>

\* `await order.save()`: the handler's last statement.
CoopSave(s) ==
    /\ At(s, "cooperativecancel", "decided")
    /\ SaveAndEnd(s)
    /\ UNCHANGED <<users, escrowVars, communityVars>>

\* ------------------------------------------------------------------ addinvoice
\* `validateInvoice(...)`, `Order.findOne({ _id: orderId })`, then
\* `order.buyer_invoice = lnInvoice` on the document read.
AddInvoiceRead(s, u, o, lnInvoice, invoiceOk) ==
    /\ Free(s)
    /\ validateUser(u)
    /\ o \in DOMAIN orders
    /\ IF ~invoiceOk
       THEN Rejects("addinvoice", u, o)
       ELSE /\ run' = [run EXCEPT ![s] =
                   [Started("addinvoice", u, o, "validated")
                       EXCEPT !.order.buyer_invoice = lnInvoice,
                              !.lnInvoice = lnInvoice,
                              !.assigned = pathsToSave(orders[o],
                                  [orders[o] EXCEPT !.buyer_invoice = lnInvoice],
                                  {"buyer_invoice"})]]
            /\ UNCHANGED last
    /\ UNCHANGED <<orders, users, escrowVars, communityVars>>

\* `await order.save()`
AddInvoiceSave(s) ==
    /\ At(s, "addinvoice", "validated")
    /\ SaveAndEnd(s)
    /\ UNCHANGED <<users, escrowVars, communityVars>>

\* ------------------------------------------------------------------ ban
\* `validateObjectId(bot, user, params[0])`: the handler declares no `params`,
\* so evaluating the argument throws a ReferenceError.
banThrows == TRUE

\* What a ban invocation did: the admin, the `<username>` parameter, the outcome.
DidBan(a, username, outcome) ==
    [cmd |-> "ban", user |-> a, order |-> None, from |-> "none",
     escrow |-> "none", outcome |-> outcome, target |-> username]

\* The handler reads the user and ends before any write.
Ban(a, username) ==
    /\ validateAdmin(a)
    /\ IF username \notin DOMAIN users
       THEN /\ last' = DidBan(a, username, "rejected")
            /\ UNCHANGED users
       ELSE IF banThrows
       THEN /\ last' = DidBan(a, username, "threw")
            /\ UNCHANGED users
       ELSE /\ users' = [users EXCEPT ![username].banned = TRUE]
            /\ last' = DidBan(a, username, "saved")
    /\ left > 0
    /\ left' = left - 1
    /\ UNCHANGED store
    /\ UNCHANGED <<orders, run, escrowVars, communityVars>>

\* ------------------------------------------------------------------ start
\* `await validateUser(ctx, true)`: a sender the bot does not know gets a user
\* record; a sender without a Telegram username is turned away before.
Start(u, hasUsername) ==
    /\ left > 0
    /\ left' = left - 1
    /\ UNCHANGED store
    /\ users' = IF hasUsername /\ u \notin DOMAIN users
                THEN [x \in DOMAIN users \cup {u} |->
                         IF x = u THEN NewUser ELSE users[x]]
                ELSE users
    /\ last' = Did("start", u, None, "none", "none",
                   IF hasUsername THEN "saved" ELSE "rejected")
    /\ UNCHANGED <<orders, run, escrowVars, communityVars>>

\* ------------------------------------------------------------------ sell, buy
\* `validateSeller(bot, user)`: a seller with an order in FIAT_SENT has to
\* solve that order first.
validateSeller(u) ==
    \A o \in DOMAIN orders :
        ~(orders[o].seller_id = u /\ orders[o].status = "FIAT_SENT")

\* The id the next Order document gets.
nextOrderId ==
    CHOOSE o \in OrderIds \ DOMAIN orders :
        \A x \in OrderIds \ DOMAIN orders : o <= x

\* `ordersActions.createOrder(ctx, {...})`: one more Order document.
createOrder(doc) ==
    [o \in DOMAIN orders \cup {nextOrderId} |->
        IF o = nextOrderId THEN doc ELSE orders[o]]

\* `validateUser`, `validateSeller`, `validateSellOrder`
SellValidate(s, u) ==
    /\ Free(s)
    /\ validateUser(u)
    /\ IF ~validateSeller(u)
       THEN /\ last' = Did("sell", u, None, "none", "none", "rejected")
            /\ UNCHANGED run
       ELSE /\ run' = [run EXCEPT ![s] =
                   [Idle EXCEPT !.cmd = "sell", !.pc = "validated", !.user = u]]
            /\ UNCHANGED last
    /\ UNCHANGED <<orders, users, escrowVars, communityVars>>

\* `await ordersActions.createOrder(ctx, { type: 'sell', seller: user, status:
\* 'PENDING', ... })`, then the messages: the handler ends.
SellCreate(s) ==
    /\ At(s, "sell", "validated")
    /\ orders' = createOrder(NewOrder(run[s].user))
    /\ run' = [run EXCEPT ![s] = Idle]
    /\ last' = Did("sell", run[s].user, nextOrderId, "none", "none", "saved")
    /\ UNCHANGED <<users, escrowVars, communityVars>>

\* `validateUser`, `validateBuyOrder`
BuyValidate(s, u) ==
    /\ Free(s)
    /\ validateUser(u)
    /\ run' = [run EXCEPT ![s] =
           [Idle EXCEPT !.cmd = "buy", !.pc = "validated", !.user = u]]
    /\ UNCHANGED <<orders, users, last, escrowVars, communityVars>>

\* `await ordersActions.createOrder(ctx, { type: 'buy', buyer: user, status:
\* 'PENDING', ... })`, then the messages: the handler ends.
BuyCreate(s) ==
    /\ At(s, "buy", "validated")
    /\ orders' = createOrder(NewBuyOrder(run[s].user))
    /\ run' = [run EXCEPT ![s] = Idle]
    /\ last' = Did("buy", run[s].user, nextOrderId, "none", "none", "saved")
    /\ UNCHANGED <<users, escrowVars, communityVars>>

\* ------------------------------------------------------------------ takebuy
\* The seller who takes a buy order: the order is unclaimed and not the taker's own.
validateTakeBuyOrder(u, o) ==
    /\ o \in DOMAIN orders
    /\ orders[o].type = "buy"
    /\ orders[o].status = "PENDING"
    /\ orders[o].seller_id = NoUser
    /\ u # orders[o].buyer_id
    /\ u \notin Admins

\* The fields takebuy assigns on the order before it saves it.
takenBuyFields == {"status", "seller_id", "hash", "secret", "taken_at"}

\* The document takebuy saves: the seller who took it and the hold invoice.
takenBuyOrder(ord, u, inv) ==
    [ord EXCEPT !.status = "WAITING_PAYMENT", !.seller_id = u,
                !.hash = inv.hash, !.secret = inv.secret, !.taken_at = TRUE]

\* `takebuy(...)` reads and validates the order.
takebuy(s, u, o) ==
    /\ Free(s)
    /\ validateUser(u)
    /\ validateTakeBuyOrder(u, o)
    /\ run' = [run EXCEPT ![s] = Started("takebuy", u, o, "validated")]
    /\ UNCHANGED <<orders, users, last, escrowVars, communityVars>>

\* `bot.command('takebuy', ...)`: `await takebuy(ctx)`
TakeBuyCommand(s, u, o) == takebuy(s, u, o)

\* `bot.action('takebuybutton', ...)`: `await takebuy(ctx, bot, { orderId, tgUser })`
TakeBuyButton(s, u, o) == takebuy(s, u, o)

\* The hold invoice of the trade is created; an error of the escrow service
\* leaves the order as it is.
TakeBuyCreateInvoice(s, escrowOk) ==
    /\ At(s, "takebuy", "validated")
    /\ IF escrowOk
       THEN LET inv == createHoldInvoice IN
            /\ Cardinality(holdInvoices) < MaxInvoices
            /\ holdInvoices' = holdInvoices \cup {inv.hash}
            /\ run' = [run EXCEPT ![s] = [@ EXCEPT !.pc = "invoiced",
                   !.escrow = "ok",
                   !.assigned = pathsToSave(run[s].order,
                       takenBuyOrder(run[s].order, run[s].user, inv),
                       takenBuyFields),
                   !.order = takenBuyOrder(run[s].order, run[s].user, inv)]]
            /\ UNCHANGED last
       ELSE /\ Ends(s, "error", "threw")
            /\ UNCHANGED holdInvoices
    /\ UNCHANGED <<orders, users, subscribed, settleCalls, cancelCalls,
                   noArgCall, communityVars>>

\* The order is saved with the seller and the hold invoice.
TakeBuySave(s) ==
    /\ At(s, "takebuy", "invoiced")
    /\ orders' = [orders EXCEPT ![run[s].oid] =
                     save(@, run[s].order, run[s].assigned)]
    /\ run' = [run EXCEPT ![s] = [@ EXCEPT !.pc = "saved", !.saved = {"order"}]]
    /\ UNCHANGED <<users, last, escrowVars, communityVars>>

\* The subscription for the hold invoice begins: the handler ends.
TakeBuySubscribe(s) ==
    /\ At(s, "takebuy", "saved")
    /\ subscribed' = subscribed \cup {run[s].order.hash}
    /\ Ends(s, "ok", "saved")
    /\ UNCHANGED <<orders, users, holdInvoices, settleCalls, cancelCalls,
                   noArgCall, communityVars>>

\* ------------------------------------------------------------------ job cancelOrders
\* The order-expiry sweep finds an order that stayed in WAITING_PAYMENT past
\* the timeout.
CancelOrdersFind(s, o) ==
    /\ Free(s)
    /\ o \in DOMAIN orders
    /\ orders[o].status = "WAITING_PAYMENT"
    /\ run' = [run EXCEPT ![s] = Started("cancelOrders", NoUser, o, "found")]
    /\ UNCHANGED <<orders, users, last, escrowVars, communityVars>>

\* The sweep refunds the escrow if the order has a hold invoice.
CancelOrdersCall(s, outcome) ==
    /\ At(s, "cancelOrders", "found")
    /\ LET ord == run[s].order
           called == hasHoldInvoice(ord)
       IN /\ CancelEscrow(called, ord.hash, outcome)
          /\ AfterEscrow(s, EscrowResult(called, outcome),
                         [ord EXCEPT !.status = "CANCELED"], {"status"}, "called")
    /\ UNCHANGED <<orders, users, holdInvoices, subscribed, communityVars>>

\* The sweep saves the order as CANCELED.
CancelOrdersSave(s) ==
    /\ At(s, "cancelOrders", "called")
    /\ SaveAndEnd(s)
    /\ UNCHANGED <<users, escrowVars, communityVars>>

\* ------------------------------------------------------------------ pending payments
\* `PendingPayment.findOne({ community_id, attempts: { $lt: PAYMENT_ATTEMPTS },
\* paid: false })` finds a document.
isScheduled(c) ==
    \E p \in payments :
        /\ p.community_id = c
        /\ p.attempts < PAYMENT_ATTEMPTS
        /\ p.paid = FALSE

\* The earnings-withdrawal flow queues the payout of a community's earnings,
\* unless one is queued already.
WithdrawEarnings(c) ==
    /\ left > 0
    /\ left' = left - 1
    /\ UNCHANGED store
    /\ earnings[c] > 0
    /\ ~isScheduled(c)
    /\ Cardinality(payments) < MaxPayments
    /\ payments' = payments \cup
           {[community_id |-> c, attempts |-> 0, paid |-> FALSE]}
    /\ last' = Did("withdrawearnings", NoUser, None, "none", "none", "saved")
    /\ UNCHANGED <<orders, users, run, escrowVars, earnings, reply>>

\* The pending-payment sweep attempts one queued payout: paid on success, with
\* the community's earnings withdrawn, one more attempt on failure.
attemptPendingPayments(p, payOk) ==
    /\ p \in payments
    /\ ~p.paid
    /\ p.attempts < PAYMENT_ATTEMPTS
    /\ IF payOk
       THEN /\ payments' = (payments \ {p}) \cup {[p EXCEPT !.paid = TRUE]}
            /\ earnings' = [earnings EXCEPT ![p.community_id] = 0]
       ELSE /\ payments' = (payments \ {p}) \cup {[p EXCEPT !.attempts = @ + 1]}
            /\ UNCHANGED earnings
    /\ UNCHANGED <<orders, users, run, left, store, last, escrowVars, reply>>

PendingPayments ==
    [community_id : Communities, attempts : 0..PAYMENT_ATTEMPTS, paid : BOOLEAN]

\* ------------------------------------------------------------------ the bot
Next ==
    \/ \E u \in Usernames, hasUsername \in BOOLEAN : Start(u, hasUsername)
    \/ \E s \in Slots, u \in Usernames : SellValidate(s, u)
    \/ \E s \in Slots : SellCreate(s)
    \/ \E s \in Slots, u \in Usernames : BuyValidate(s, u)
    \/ \E s \in Slots : BuyCreate(s)
    \/ \E s \in Slots, u \in Usernames, o \in OrderIds : TakeBuyCommand(s, u, o)
    \/ \E s \in Slots, u \in Usernames, o \in OrderIds : TakeBuyButton(s, u, o)
    \/ \E s \in Slots, escrowOk \in BOOLEAN : TakeBuyCreateInvoice(s, escrowOk)
    \/ \E s \in Slots : TakeBuySave(s)
    \/ \E s \in Slots : TakeBuySubscribe(s)
    \/ \E h \in InvoiceIds : InvoicePaid(h)
    \/ \E h \in InvoiceIds : InvoiceSettled(h)
    \/ \E s \in Slots, o \in OrderIds : CancelOrdersFind(s, o)
    \/ \E s \in Slots, outcome \in EscrowOutcomes : CancelOrdersCall(s, outcome)
    \/ \E s \in Slots : CancelOrdersSave(s)
    \/ \E c \in Communities : WithdrawEarnings(c)
    \/ \E p \in PendingPayments, payOk \in BOOLEAN : attemptPendingPayments(p, payOk)
    \/ \E s \in Slots, u \in Usernames, o \in OrderIds, lnInvoice \in Invoices :
          TakeRead(s, u, o, lnInvoice)
    \/ \E s \in Slots, escrowOk \in BOOLEAN : TakeCreateInvoice(s, escrowOk)
    \/ \E s \in Slots : TakeSave(s)
    \/ \E s \in Slots : TakeSubscribe(s)
    \/ \E s \in Slots, u \in Usernames, o \in OrderIds : FiatSentRead(s, u, o)
    \/ \E s \in Slots : FiatSentSave(s)
    \/ \E s \in Slots, u \in Usernames, o \in OrderIds : ReleaseRead(s, u, o)
    \/ \E s \in Slots, outcome \in EscrowOutcomes : ReleaseSettle(s, outcome)
    \/ \E s \in Slots, u \in Usernames, o \in OrderIds : DisputeValidate(s, u, o)
    \/ \E s \in Slots : DisputeReadBuyer(s)
    \/ \E s \in Slots : DisputeReadSeller(s)
    \/ \E s \in Slots : DisputeSaveOrder(s)
    \/ \E s \in Slots : DisputeSaveBuyer(s)
    \/ \E s \in Slots : DisputeSaveSeller(s)
    \/ \E s \in Slots : DisputeNotify(s)
    \/ \E s \in Slots, u \in Usernames, o \in OrderIds : CancelRead(s, u, o)
    \/ \E s \in Slots, outcome \in EscrowOutcomes : CancelCall(s, outcome)
    \/ \E s \in Slots : CancelSave(s)
    \/ \E s \in Slots, a \in Usernames, o \in OrderIds : CancelOrderRead(s, a, o)
    \/ \E s \in Slots, outcome \in EscrowOutcomes : CancelOrderCall(s, outcome)
    \/ \E s \in Slots : CancelOrderSave(s)
    \/ \E s \in Slots, a \in Usernames, o \in OrderIds : SettleOrderRead(s, a, o)
    \/ \E s \in Slots, outcome \in EscrowOutcomes : SettleOrderCall(s, outcome)
    \/ \E s \in Slots : SettleOrderSave(s)
    \/ \E s \in Slots, u \in Usernames, o \in OrderIds : CoopRead(s, u, o)
    \/ \E s \in Slots, outcome \in EscrowOutcomes, tgOk \in BOOLEAN :
          CoopDecide(s, outcome, tgOk)
    \/ \E s \in Slots : CoopSave(s)
    \/ \E s \in Slots, u \in Usernames, o \in OrderIds, lnInvoice \in Invoices,
          invoiceOk \in BOOLEAN : AddInvoiceRead(s, u, o, lnInvoice, invoiceOk)
    \/ \E s \in Slots : AddInvoiceSave(s)
    \/ \E a \in Usernames, username \in Usernames : Ban(a, username)

\* Every user the bot knows, with no dispute yet; no escrow call made, no handler
\* running, no payout queued.
InitRest ==
    /\ users = [u \in Users |-> NewUser]
    /\ settleCalls = [h \in InvoiceIds |-> 0]
    /\ cancelCalls = [h \in InvoiceIds |-> 0]
    /\ noArgCall = FALSE
    /\ run = [s \in Slots |-> Idle]
    /\ last = Did("none", NoUser, None, "none", "none", "saved")
    /\ reply = NoReply
    /\ store \in SaveModes

\* The bot with one published sell order that nobody has taken yet.
InitPending ==
    /\ orders = [o \in {1} |-> NewOrder("alice")]
    /\ holdInvoices = {}
    /\ subscribed = {}

\* The bot with one sell order that bob took; alice has not paid its hold invoice.
InitWaiting ==
    /\ orders = [o \in {1} |-> WaitingOrder("alice", "bob", 1)]
    /\ holdInvoices = {1}
    /\ subscribed = {1}

\* The bot with one sell order that bob took and whose hold invoice alice paid.
InitActive ==
    /\ orders = [o \in {1} |-> ActiveOrder("alice", "bob", 1)]
    /\ holdInvoices = {1}
    /\ subscribed = {1}

\* The bot with one trade on which bob has declared the fiat sent.
InitFiatSent ==
    /\ orders = [o \in {1} |-> FiatSentOrder("alice", "bob", 1)]
    /\ holdInvoices = {1}
    /\ subscribed = {1}

Init ==
    /\ InitPending \/ InitWaiting \/ InitActive \/ InitFiatSent
    /\ InitRest
    /\ left = MaxCommands
    /\ payments = {}
    /\ earnings = [c \in Communities |-> 1]

Spec == Init /\ [][Next]_vars

\* ------------------------------------------------------------------ disputes on several orders
NextDispute ==
    \/ \E s \in Slots, u \in Usernames, o \in DisputeOrderIds :
          DisputeValidate(s, u, o)
    \/ \E s \in Slots : DisputeReadBuyer(s)
    \/ \E s \in Slots : DisputeReadSeller(s)
    \/ \E s \in Slots : DisputeSaveOrder(s)
    \/ \E s \in Slots : DisputeSaveBuyer(s)
    \/ \E s \in Slots : DisputeSaveSeller(s)
    \/ \E s \in Slots : DisputeNotify(s)

\* Three active trades between the same two users, each disputed at most once
\* by each handler slot; no handler running.
InitDispute ==
    /\ orders = [o \in DisputeOrderIds |->
                   IF o = 2 THEN ActiveOrder("bob", "alice", o)
                   ELSE ActiveOrder("alice", "bob", o)]
    /\ holdInvoices = DisputeOrderIds
    /\ subscribed = DisputeOrderIds
    /\ InitRest
    /\ left = Cardinality(DisputeOrderIds)
    /\ payments = {}
    /\ earnings = [c \in Communities |-> 0]

SpecDispute == InitDispute /\ [][NextDispute]_vars

\* ------------------------------------------------------------------ earningsMessage
\* `community.earnings > 0 ? { reply_markup: ... withdraw_earnings } : null`
withdrawButton(community) == community > 0

\* `const isScheduled = await PendingPayment.findOne({...})`
earningsMessageFind(s, c) ==
    /\ Free(s)
    /\ run' = [run EXCEPT ![s] =
           [Idle EXCEPT !.cmd = "earnings", !.pc = "found", !.community = c,
                        !.found = isScheduled(c)]]
    /\ UNCHANGED <<orders, users, last, escrowVars, communityVars>>

\* `const community = await Community.findById(communityId)`
earningsMessageCommunity(s) ==
    /\ At(s, "earnings", "found")
    /\ ~run[s].found
    /\ run' = [run EXCEPT ![s] = [@ EXCEPT !.pc = "gotCommunity",
                   !.earnings = earnings[run[s].community]]]
    /\ UNCHANGED <<orders, users, last, escrowVars, communityVars>>

\* `await ctx.reply(...)`: invoice_already_being_paid when the query found a
\* payment, else current_earnings with the button built from the community
\* document that was read.
earningsMessageReply(s) ==
    /\ run[s].cmd = "earnings"
    /\ UNCHANGED <<left, store>>
    /\ \/ /\ run[s].pc = "found"
          /\ run[s].found
          /\ reply' = [community |-> run[s].community,
                       text |-> "invoice_already_being_paid", button |-> FALSE]
       \/ /\ run[s].pc = "gotCommunity"
          /\ reply' = [community |-> run[s].community,
                       text |-> "current_earnings",
                       button |-> withdrawButton(run[s].earnings)]
    /\ Ends(s, "none", "saved")
    /\ UNCHANGED <<orders, users, escrowVars, payments, earnings>>

NextEarnings ==
    \/ \E s \in Slots, c \in Communities : earningsMessageFind(s, c)
    \/ \E s \in Slots : earningsMessageCommunity(s)
    \/ \E s \in Slots : earningsMessageReply(s)
    \/ \E c \in Communities : WithdrawEarnings(c)
    \/ \E p \in PendingPayments, payOk \in BOOLEAN : attemptPendingPayments(p, payOk)

\* Any pending payments and earnings the communities may have.
InitEarnings ==
    /\ payments \in {ps \in SUBSET PendingPayments : Cardinality(ps) <= MaxPayments}
    /\ earnings \in [Communities -> 0..MaxEarnings]
    /\ orders = [o \in {1} |-> NewOrder("alice")]
    /\ holdInvoices = {}
    /\ subscribed = {}
    /\ InitRest
    /\ left = MaxCommands

SpecEarnings == InitEarnings /\ [][NextEarnings]_vars

\* ------------------------------------------------------------------ properties
\* The handler in slot s returns in this step.
Ended(s) == run[s].pc # "idle" /\ run'[s].pc = "idle"

\* This step is a whole invocation of `cmd`: it ended where it read its input.
Answered(cmd) == left' = left - 1 /\ run' = run /\ last'.cmd = cmd

\* No handler is in flight.
AllIdle == \A s \in Slots : run[s].pc = "idle"

OneCoopFlag(ord) == ord.buyer_cooperativecancel # ord.seller_cooperativecancel

BothCoopFlags(ord) == ord.buyer_cooperativecancel /\ ord.seller_cooperativecancel

EscrowCommands == {"cancel", "cancelorder", "settleorder", "cooperativecancel"}

\* C1: for every hold invoice, settleHoldInvoice is carried out at most once with
\* its secret and cancelHoldInvoice at most once with its hash, whatever commands
\* are issued and however often.
C1_AtMostOncePerHash ==
    \A h \in InvoiceIds : settleCalls[h] <= 1 /\ cancelCalls[h] <= 1

\* C2: a cooperativecancel handler changes the persisted status to CANCELED
\* only with both cooperative-cancel flags set on the order, changes it to
\* nothing else but the ACTIVE it read (and to that only where a save writes
\* the whole document), and calls cancelHoldInvoice only when the
\* counterparty's flag was on the order it read; a handler whose save leaves
\* one flag set and the other unset had read the order ACTIVE, leaves the
\* persisted status ACTIVE where a save writes the whole document and as it
\* is otherwise, and has made no cancelHoldInvoice call.
C2_CancelNeedsBothFlags ==
    [][\A s \in Slots :
        LET o == run[s].oid
            own == initiatorOf(run[s].user, run[s].order)
        IN run[s].cmd = "cooperativecancel" =>
            /\ (Ended(s) /\ last'.outcome = "saved"
                /\ orders'[o].status # orders[o].status)
                  => \/ /\ orders'[o].status = "CANCELED"
                        /\ BothCoopFlags(orders'[o])
                     \/ /\ store = "whole"
                        /\ run[s].from = "ACTIVE"
                        /\ orders'[o].status = "ACTIVE"
                        /\ last'.escrow = "none"
            /\ (Ended(s) /\ last'.outcome = "saved" /\ OneCoopFlag(orders'[o]))
                  => /\ run[s].from = "ACTIVE"
                     /\ orders'[o].status =
                            IF store = "whole" THEN "ACTIVE" ELSE orders[o].status
                     /\ last'.escrow = "none"
                     /\ cancelCalls' = cancelCalls
            /\ (run'[s] # run[s] /\ cancelCalls' # cancelCalls)
                  => coopFlag(run[s].order, counterPartyOf(own))]_vars

C2_Witness ==
    /\ last.cmd = "cooperativecancel"
    /\ last.outcome = "saved"
    /\ OneCoopFlag(orders[last.order])
    /\ orders[last.order].status = "ACTIVE"
    /\ \A h \in InvoiceIds : cancelCalls[h] = 0

\* C3: when one party of an ACTIVE order has requested the cooperative cancel
\* and the other party's handler has read that request, with no other handler
\* running and the escrow call not erroring, the persisted status is CANCELED
\* when the handler ends and cancelHoldInvoice was carried out exactly once for the
\* order's hash.
C3_BothRequestsCancel ==
    [][\A s \in Slots :
        LET o == run[s].oid
            own == initiatorOf(run[s].user, orders[o])
        IN (/\ run[s].cmd = "cooperativecancel" /\ Ended(s)
            /\ \A t \in Slots \ {s} : run[t].pc = "idle"
            /\ ~escrowFailed(last'.escrow)
            /\ orders[o].status = "ACTIVE"
            /\ coopFlag(orders[o], counterPartyOf(own))
            /\ ~coopFlag(orders[o], own)
            /\ coopFlag(run[s].order, counterPartyOf(own)))
           => /\ orders'[o].status = "CANCELED"
              /\ orders[o].hash # None => cancelCalls'[orders[o].hash] = 1]_vars

\* C4: in cancel, cancelorder, settleorder and cooperativecancel, a handler whose
\* escrow call failed ends with the persisted orders as they were: it saves no
\* status for the order.
C4_EscrowErrorKeepsOrder ==
    [][\A s \in Slots :
        (run[s].cmd \in EscrowCommands /\ Ended(s) /\ escrowFailed(last'.escrow))
          => orders' = orders]_vars

\* C5: once an order's status is terminal no command changes the status again
\* or makes an escrow call for the order's hold invoice.
C5_TerminalIsFinal ==
    [][\A o \in DOMAIN orders :
        orders[o].status \in Terminal =>
            /\ orders'[o].status = orders[o].status
            /\ orders[o].hash # None =>
                  /\ cancelCalls'[orders[o].hash] = cancelCalls[orders[o].hash]
                  /\ settleCalls'[orders[o].hash] = settleCalls[orders[o].hash]]_vars

\* C6: whenever a dispute handler that has saved an order as DISPUTE saves the
\* order's buyer and seller, the persisted disputes counter of that user becomes
\* exactly one higher than it was.
C6_DisputeIncrementsBoth ==
    [][\A s \in Slots :
        LET ord == run[s].order IN
        run[s].cmd = "dispute" =>
            /\ (run[s].pc = "orderSaved" /\ run'[s].pc = "buyerSaved")
                  => users'[ord.buyer_id].disputes
                        = users[ord.buyer_id].disputes + 1
            /\ (run[s].pc = "buyerSaved" /\ run'[s].pc = "sellerSaved")
                  => users'[ord.seller_id].disputes
                        = users[ord.seller_id].disputes + 1]_vars

\* C7: a user is banned exactly when the user's disputes counter has reached
\* MAX_DISPUTES.
C7_BannedIffMaxDisputes ==
    \A u \in Users : users[u].banned <=> users[u].disputes >= MAX_DISPUTES

\* C8: under interleaved dispute handlers no user's persisted disputes counter
\* decreases and no persisted banned flag goes from true back to false.
C8_UserMonotonic ==
    [][\A u \in Users :
        /\ users'[u].disputes >= users[u].disputes
        /\ users[u].banned => users'[u].banned]_vars

\* C9: no escrow call is made with an absent hash or secret, and an owner cancel
\* that read a PENDING order without a hash ends with the order saved as
\* CANCELED and no escrow call made.
C9_EscrowNeedsField ==
    [][/\ ~noArgCall'
       /\ \A s \in Slots :
            (/\ run[s].cmd = "cancel" /\ Ended(s)
             /\ run[s].from = "PENDING" /\ run[s].order.hash = None)
            => /\ orders'[run[s].oid].status = "CANCELED"
               /\ last'.escrow = "none"
               /\ cancelCalls' = cancelCalls]_vars

C9_Witness ==
    /\ last.cmd = "cancel"
    /\ last.from = "PENDING"
    /\ last.escrow = "none"
    /\ orders[last.order].hash = None
    /\ orders[last.order].status = "CANCELED"
    /\ \A h \in InvoiceIds : cancelCalls[h] = 0

\* C10: when a release by the seller that read a FIAT_SENT order ends with its
\* secret accepted by the escrow, settleHoldInvoice has been carried out exactly
\* once with the order's secret.
C10_ReleaseCompletes ==
    [][\A s \in Slots :
        (/\ run[s].cmd = "release" /\ Ended(s)
         /\ run[s].from = "FIAT_SENT" /\ last'.escrow = "ok")
        => settleCalls'[run[s].order.hash] = 1]_vars

\* C11: an order is COMPLETED_BY_ADMIN only if it has a secret and
\* settleHoldInvoice was carried out with it.
C11_AdminSettleNeedsSecret ==
    \A o \in DOMAIN orders :
        orders[o].status = "COMPLETED_BY_ADMIN" =>
            /\ orders[o].secret # None
            /\ orders[o].hash \in holdInvoices
            /\ settleCalls[orders[o].hash] >= 1

\* C12: a takesell handler whose createHoldInvoice errored ends having saved
\* nothing: the persisted orders, the hold invoices and the subscriptions are as
\* they were, and an order no other handler has saved meanwhile is still
\* PENDING with no buyer, hash, secret or taken_at and the buyer_invoice it had.
C12_TakeSellErrorKeepsOrder ==
    [][\A s \in Slots :
        LET o == run[s].oid IN
        (run[s].cmd = "takesell" /\ Ended(s) /\ last'.escrow = "error") =>
            /\ orders' = orders
            /\ subscribed' = subscribed
            /\ holdInvoices' = holdInvoices
            /\ run[s].saved = {}
            /\ orders[o] = run[s].order =>
                  /\ orders'[o].status = "PENDING"
                  /\ orders'[o].buyer_id = NoUser
                  /\ orders'[o].buyer_invoice = run[s].order.buyer_invoice
                  /\ orders'[o].hash = None
                  /\ orders'[o].secret = None
                  /\ ~orders'[o].taken_at]_vars

C12_Witness ==
    /\ last.cmd = "takesell"
    /\ last.escrow = "error"
    /\ orders[last.order].status = "PENDING"
    /\ orders[last.order].buyer_id = NoUser
    /\ subscribed = {}

\* C13: the save of a takesell handler persists the order as WAITING_PAYMENT
\* with the hash and the secret of one hold invoice in the same write, every
\* order persisted as WAITING_PAYMENT or ACTIVE has both, and a takesell
\* handler subscribes to the hash only after that save.
C13_WaitingHasHashAndSecret ==
    [][/\ \A o \in DOMAIN orders' :
            orders'[o].status \in {"WAITING_PAYMENT", "ACTIVE"} =>
               /\ orders'[o].hash # None
               /\ orders'[o].secret # None
               /\ InvoiceOf(orders'[o].secret) = orders'[o].hash
       /\ \A s \in Slots :
            run[s].cmd = "takesell" =>
               /\ (run[s].pc = "invoiced" /\ run'[s].pc = "saved")
                     => /\ orders'[run[s].oid].status = "WAITING_PAYMENT"
                        /\ orders'[run[s].oid].hash = run[s].order.hash
                        /\ orders'[run[s].oid].hash # None
                        /\ orders'[run[s].oid].secret # None
                        /\ InvoiceOf(orders'[run[s].oid].secret)
                              = orders'[run[s].oid].hash
               /\ (run'[s] # run[s] /\ subscribed' # subscribed)
                     => /\ run[s].saved = {"order"}
                        /\ subscribed' = subscribed \cup {run[s].order.hash}
                        /\ run[s].order.status = "WAITING_PAYMENT"]_vars

C13_Witness ==
    \E o \in DOMAIN orders :
        /\ last.cmd = "takesell"
        /\ last.outcome = "saved"
        /\ orders[o].status = "WAITING_PAYMENT"
        /\ orders[o].hash \in subscribed
        /\ orders[o].secret = -orders[o].hash

\* C14: a cancel handler goes on only with an order it read as PENDING or
\* WAITING_PAYMENT; a cancel on an order in any other status ends where it read
\* the order, leaving every field of the order unchanged and making no escrow
\* call.
C14_CancelOnlyUntaken ==
    [][/\ \A s \in Slots :
            run'[s].cmd = "cancel" =>
               run'[s].from \in {"PENDING", "WAITING_PAYMENT"}
       /\ \A o \in DOMAIN orders :
            (/\ Answered("cancel") /\ last'.order = o
             /\ orders[o].status \notin {"PENDING", "WAITING_PAYMENT"})
            => /\ orders' = orders
               /\ cancelCalls' = cancelCalls
               /\ settleCalls' = settleCalls
               /\ noArgCall' = noArgCall
               /\ last'.escrow = "none"
               /\ last'.outcome = "rejected"]_vars

C14_Witness ==
    /\ last.cmd = "cancel"
    /\ last.from = "ACTIVE"
    /\ last.outcome = "rejected"
    /\ orders[last.order].status = "ACTIVE"
    /\ orders[last.order].canceled_by = NoUser

\* C15: a cooperativecancel by the buyer or seller whose own flag is already set
\* on the ACTIVE order is rejected where it read the order: no handler goes on
\* with such an order, flags and status keep their values, nothing is saved and
\* cancelHoldInvoice is not called.
C15_RepeatedRequestRejected ==
    [][/\ \A s \in Slots :
            (run[s].pc = "idle" /\ run'[s].cmd = "cooperativecancel") =>
               ~coopFlag(run'[s].order, initiatorOf(run'[s].user, run'[s].order))
       /\ \A o \in DOMAIN orders :
            (/\ Answered("cooperativecancel") /\ last'.order = o
             /\ last'.user \in {orders[o].buyer_id, orders[o].seller_id}
             /\ orders[o].status = "ACTIVE"
             /\ coopFlag(orders[o], initiatorOf(last'.user, orders[o])))
            => /\ orders' = orders
               /\ cancelCalls' = cancelCalls
               /\ last'.escrow = "none"
               /\ last'.outcome = "rejected"]_vars

C15_Witness ==
    /\ last.cmd = "cooperativecancel"
    /\ last.outcome = "rejected"
    /\ last.from = "ACTIVE"
    /\ last.user \in {orders[last.order].buyer_id, orders[last.order].seller_id}
    /\ orders[last.order].status = "ACTIVE"
    /\ coopFlag(orders[last.order], initiatorOf(last.user, orders[last.order]))

\* C16: a dispute handler that sends its notification has saved the order, with
\* status DISPUTE and the initiator's flag, and both user records before.
C16_SavesBeforeNotify ==
    [][\A s \in Slots :
        (run[s].cmd = "dispute" /\ Ended(s)) =>
            /\ run[s].saved = {"order", "buyer", "seller"}
            /\ last'.saved = {"order", "buyer", "seller"}
            /\ run[s].order.status = "DISPUTE"
            /\ IF initiatorOf(run[s].user, run[s].order) = "buyer"
               THEN run[s].order.buyer_dispute
               ELSE run[s].order.seller_dispute]_vars

C16_Witness ==
    /\ last.cmd = "dispute"
    /\ last.saved = {"order", "buyer", "seller"}
    /\ orders[last.order].status = "DISPUTE"
    /\ users[orders[last.order].buyer_id].disputes >= 1
    /\ users[orders[last.order].seller_id].disputes >= 1

\* C17: whenever the earnings flow replies for a community that has an unpaid
\* PendingPayment with attempts below the maximum, the reply is that an invoice
\* is already being paid, without the withdraw button; the button is in the
\* reply only when there is no such payment and the community's earnings are
\* greater than 0.
C17_NoWithdrawWhilePending ==
    [][\A s \in Slots :
        (run[s].cmd = "earnings" /\ Ended(s)) =>
            LET c == run[s].community IN
            /\ isScheduled(c) => /\ reply'.text = "invoice_already_being_paid"
                                 /\ ~reply'.button
            /\ reply'.button => (~isScheduled(c) /\ earnings[c] > 0)]_vars

\* C18: an addinvoice handler changes an order's buyer_invoice only when the
\* caller is the order's buyer.
C18_AddInvoiceOnlyBuyer ==
    [][\A s \in Slots :
        LET o == run[s].oid IN
        (/\ run[s].cmd = "addinvoice" /\ Ended(s)
         /\ run[s].user # orders[o].buyer_id)
        => orders'[o].buyer_invoice = orders[o].buyer_invoice]_vars

\* C19: of two takesell handlers running on one order at most one creates a
\* hold invoice, and once the handlers have ended every hold invoice created is
\* the one an order references, together with its secret.
C19_OneTakerPerOrder ==
    /\ \A s, t \in Slots :
         (/\ s # t
          /\ run[s].cmd = "takesell" /\ run[t].cmd = "takesell"
          /\ run[s].oid = run[t].oid)
         => ~(run[s].escrow = "ok" /\ run[t].escrow = "ok")
    /\ AllIdle =>
         \A h \in holdInvoices :
            \E o \in DOMAIN orders : orders[o].hash = h /\ orders[o].secret = -h

\* C20: when a cooperativecancel handler that did not read the counterparty's
\* request saves after the counterparty's handler has saved its own, both
\* having read the ACTIVE order before either saved, the order is CANCELED and
\* its hold invoice was cancelled exactly once.
C20_InterleavedRequestsCancel ==
    [][\A s \in Slots :
        LET o == run[s].oid
            own == initiatorOf(run[s].user, run[s].order)
        IN (/\ run[s].cmd = "cooperativecancel" /\ Ended(s)
            /\ last'.outcome = "saved"
            /\ ~coopFlag(run[s].order, counterPartyOf(own))
            /\ orders[o].status = "ACTIVE"
            /\ coopFlag(orders[o], counterPartyOf(own))
            /\ \A t \in Slots \ {s} : run[t].pc = "idle")
           => /\ orders'[o].status = "CANCELED"
              /\ orders[o].hash # None => cancelCalls'[orders[o].hash] = 1]_vars

\* C21: a cooperativecancel handler whose cancelHoldInvoice succeeded ends with
\* the order persisted as CANCELED with both flags true, whatever fails after
\* the escrow call.
C21_CancelledInvoiceIsPersisted ==
    [][\A s \in Slots :
        (run[s].cmd = "cooperativecancel" /\ Ended(s) /\ last'.escrow = "ok")
        => /\ orders'[run[s].oid].status = "CANCELED"
           /\ BothCoopFlags(orders'[run[s].oid])]_vars

\* C22: no hold invoice has both a settleHoldInvoice and a cancelHoldInvoice
\* call made for it.
C22_SettleXorCancel ==
    \A h \in holdInvoices : ~(settleCalls[h] >= 1 /\ cancelCalls[h] >= 1)

\* C23: a ban by an admin naming an existing user leaves that user's banned
\* flag true and persisted with the admin notified; a ban naming no existing
\* user changes no user record.
C23_BanSetsFlag ==
    [][Answered("ban") =>
          IF last'.target \in DOMAIN users
          THEN /\ users'[last'.target].banned
               /\ last'.outcome = "saved"
          ELSE users' = users]_vars
====
